---- MODULE Spec2Model ----
(***************************************************************************)
(* ESP ambient logger: the Wi-Fi supervisor, the BME280 sensor wrapper,    *)
(* the data sender and the setup()/loop() scheduler.                       *)
(*                                                                         *)
(* The repository holds two builds of the program.  src/src/main.cpp       *)
(* ("ring") keeps the last SAMPLE_SIZE readings in ring buffers and draws  *)
(* one reading per tick; src/unnamed/part_000 ("direct") keeps no buffer   *)
(* and measures SAMPLE_SIZE readings per channel inside a send cycle.      *)
(* WiFiManager, DataSender and setup() are the same in both; variant says  *)
(* which build runs.                                                       *)
(*                                                                         *)
(* One thread of control runs the program; its position is pc.  A step is  *)
(* the straight-line code between two reads of the outside world           *)
(* (millis(), WiFi.status(), the sensor, the HTTP response).  The time a   *)
(* step takes is an input d \in Elapsed; the link goes up and down on its  *)
(* own (LinkChange).                                                       *)
(*                                                                         *)
(* Time is scaled: the millisecond counter has ClockBits bits, and the     *)
(* timeout, the interval and the poll delay are a few clock units.         *)
(***************************************************************************)
EXTENDS Integers, Sequences, FiniteSets, TLC

\* ------------------------------------------------------------ parameters
\* width of the millis() counter (unsigned long), scaled down
ClockBits == 3
\* main.h: WIFI_TIMEOUT_MS, INTERVAL_MS, SAMPLE_SIZE (scaled down)
WIFI_TIMEOUT_MS == 2
INTERVAL_MS == 3
SAMPLE_SIZE == 3
\* delay(200) of the connect-window poll, in clock units
POLL_DELAY == 1
\* the longest time one step of the program takes, in clock units
MaxElapse == 1

ClockMod == 2 ^ ClockBits
Elapsed == 0 .. MaxElapse

\* a float that is not a number (isnan); every other float is an integer here
NAN == -1
\* what the sensor can return on a read of each channel
TempReadings == {NAN, 10}
HumReadings == {NAN, 50}
PresReadings == {NAN, 100000}

\* "no connect request / no report attempt so far" for the elapsed-time records
Never == 0 - 1

\* the readings of the buffer-only specification SpecSensor
TempSamples == {NAN, 10, 20, 30, 40}
HumSamples == {NAN, 50, 60}
PresSamples == {NAN, 100000}

\* how long setup() may take up to the call of line 161
BootTimes == 0 .. WIFI_TIMEOUT_MS

\* part_000: the 3 * SAMPLE_SIZE delays of 50 ms of one send cycle, each a
\* quarter of the poll delay
MeasureTime == (3 * SAMPLE_SIZE * POLL_DELAY) \div 4

VARIABLES
    variant,       \* the build: "ring" (main.cpp) or "direct" (part_000)
    pc,            \* position of the thread of control
    caller,        \* who called WiFiManager::update(): "setup" or "loop"
    clock,         \* millis()
    link,          \* WiFi.status() == WL_CONNECTED
    lastAttempt,   \* WiFiManager::lastAttempt
    start,         \* local start of WiFiManager::update()
    lastSend,      \* global lastSend
    tempBuffer, humBuffer, presBuffer,   \* BME280Sensor ring buffers
    index, filled, \* BME280Sensor cursor and full flag
    args,          \* the arguments of the pending DataSender::send call
    payload,       \* the String payload of DataSender::send while the POST is in flight
    \* ---- observation of the run (not read by the program)
    sinceBegin,    \* time since the last WiFi.begin, capped at the timeout
    beginGap,      \* during update(): the time between its WiFi.begin and the one before
    expired,       \* the last connect window ran out with the link down, and the
                   \* link has not been up since
    sinceSend,     \* time since the last report attempt, capped at the interval
    ageAttempt,    \* time since lastAttempt was set (since boot before that),
                   \* capped at one round of the clock; Never when not recorded
    ageSend,       \* time since lastSend was set (since boot before that),
                   \* capped at one round of the clock; Never when not recorded
    sendGap,       \* the time between the current tick's report attempt and the one before
    hist,          \* the valid readings ingested so far, the last SAMPLE_SIZE of them
    nRead, nPost, nSkip,   \* reads, POSTs and skip logs of the current tick
    outcome,       \* how the current tick's send cycle ended
    cycleNoData    \* of the current tick's send cycle: which averages were NAN

vars == <<variant, pc, caller, clock, link, lastAttempt, start, lastSend,
          tempBuffer, humBuffer, presBuffer, index, filled, args, payload,
          sinceBegin, beginGap, expired, sinceSend, sendGap, ageAttempt, ageSend, hist,
          nRead, nPost, nSkip, outcome, cycleNoData>>

sensorVars == <<tempBuffer, humBuffer, presBuffer, index, filled, hist>>
wifiVars == <<lastAttempt, start, beginGap, expired>>
tickObs == <<nRead, nPost, nSkip, outcome, sendGap, cycleNoData>>

\* ------------------------------------------------------------ arithmetic
\* a - b on signed integers of unbounded width
SubSigned(a, b) == a - b

\* a - b on unsigned long
Sub(a, b) == (a - b) % ClockMod

Min(a, b) == IF a < b THEN a ELSE b

isnan(x) == x = NAN

\* ------------------------------------------------------------ time
\* the record of the time since an event, d later
Later(since, d, cap) == IF since = Never THEN Never ELSE Min(since + d, cap)

\* d clock units pass; begun: this step called WiFi.begin; sent: this step
\* triggered a report attempt
Pass(d, begun, sent) ==
    /\ clock' = (clock + d) % ClockMod
    /\ sinceBegin' = IF begun THEN Min(d, WIFI_TIMEOUT_MS)
                              ELSE Later(sinceBegin, d, WIFI_TIMEOUT_MS)
    /\ sinceSend' = IF sent THEN Min(d, INTERVAL_MS)
                            ELSE Later(sinceSend, d, INTERVAL_MS)
    /\ ageAttempt' = Later(IF begun /\ ageAttempt # Never THEN 0 ELSE ageAttempt, d, ClockMod)
    /\ ageSend' = Later(IF sent /\ ageSend # Never THEN 0 ELSE ageSend, d, ClockMod)

\* ------------------------------------------------------------ BME280Sensor
Slots == 0 .. (SAMPLE_SIZE - 1)

RECURSIVE SumTo(_, _)
\* sum of buffer[0 .. count-1]
SumTo(buffer, count) ==
    IF count = 0 THEN 0 ELSE buffer[count - 1] + SumTo(buffer, count - 1)

\* the result of a float division is kept as the fraction sum / count; the
\* fraction with count 0 is the NAN a division returns
NANQ == [sum |-> 0, count |-> 0]
isnanQ(q) == q.count = 0

\* average returning zero for an empty buffer
averageZeroWhenEmpty(buffer) ==
    LET count == IF filled THEN SAMPLE_SIZE ELSE index
    IN  IF count = 0 THEN [sum |-> 0, count |-> 1]
        ELSE [sum |-> SumTo(buffer, count), count |-> count]

\* average with the full flag ignored
averageIgnoresFilled(buffer) ==
    LET count == index
    IN  IF count = 0 THEN NANQ ELSE [sum |-> SumTo(buffer, count), count |-> count]

\* BME280Sensor::average
average(buffer) ==
    LET count == IF filled THEN SAMPLE_SIZE ELSE index
    IN  IF count = 0 THEN NANQ ELSE [sum |-> SumTo(buffer, count), count |-> count]

RECURSIVE ValidSum(_, _)
\* the sum of the readings reads[1 .. n] that are numbers
ValidSum(reads, n) ==
    IF n = 0 THEN 0
    ELSE (IF isnan(reads[n]) THEN 0 ELSE reads[n]) + ValidSum(reads, n - 1)

\* part_000, BME280Sensor::measureAverage over the SAMPLE_SIZE readings reads
measureAverage(reads) ==
    LET validCount == Cardinality({i \in 1 .. SAMPLE_SIZE : ~isnan(reads[i])})
    IN  IF validCount = 0 THEN NANQ
        ELSE [sum |-> ValidSum(reads, SAMPLE_SIZE), count |-> validCount]

\* the runs of SAMPLE_SIZE readings of one channel that a measurement may see:
\* a fault, once it shows, lasts to the end of the run
ReadRuns(readings) ==
    {r \in [1 .. SAMPLE_SIZE -> readings] :
        \A i \in 2 .. SAMPLE_SIZE : isnan(r[i - 1]) => isnan(r[i])}

\* the result of BME280Sensor::begin, given whether a sensor answers at bus
\* address 0x76 and at 0x77 (addr is not read again after begin)
SensorBegin(at76, at77) ==
    IF ~at76 THEN (IF ~at77 THEN FALSE ELSE TRUE) ELSE TRUE

\* update() setting the full flag one slot before the cursor wraps
SensorUpdateFillsEarly(t, h, rawp) ==
    LET p == IF isnan(rawp) THEN NAN ELSE rawp \div 100
    IN  IF isnan(t) \/ isnan(h) \/ isnan(p)
        THEN UNCHANGED sensorVars
        ELSE /\ tempBuffer' = [tempBuffer EXCEPT ![index] = t]
             /\ humBuffer' = [humBuffer EXCEPT ![index] = h]
             /\ presBuffer' = [presBuffer EXCEPT ![index] = p]
             /\ index' = (index + 1) % SAMPLE_SIZE
             /\ filled' = (filled \/ (index + 1) % SAMPLE_SIZE = SAMPLE_SIZE - 1)
             /\ hist' = LET all == Append(hist, <<t, h, p>>)
                        IN  IF Len(all) > SAMPLE_SIZE THEN Tail(all) ELSE all

\* update() testing only the temperature for NAN
SensorUpdateTestsTempOnly(t, h, rawp) ==
    LET p == IF isnan(rawp) THEN NAN ELSE rawp \div 100
    IN  IF isnan(t)
        THEN UNCHANGED sensorVars
        ELSE /\ tempBuffer' = [tempBuffer EXCEPT ![index] = t]
             /\ humBuffer' = [humBuffer EXCEPT ![index] = h]
             /\ presBuffer' = [presBuffer EXCEPT ![index] = p]
             /\ index' = (index + 1) % SAMPLE_SIZE
             /\ filled' = (filled \/ (index + 1) % SAMPLE_SIZE = 0)
             /\ hist' = LET all == Append(hist, <<t, h, p>>)
                        IN  IF Len(all) > SAMPLE_SIZE THEN Tail(all) ELSE all

\* BME280Sensor::update with the raw readings t, h, rawp
SensorUpdate(t, h, rawp) ==
    LET p == IF isnan(rawp) THEN NAN ELSE rawp \div 100
    IN  IF isnan(t) \/ isnan(h) \/ isnan(p)
        THEN UNCHANGED sensorVars
        ELSE /\ tempBuffer' = [tempBuffer EXCEPT ![index] = t]
             /\ humBuffer' = [humBuffer EXCEPT ![index] = h]
             /\ presBuffer' = [presBuffer EXCEPT ![index] = p]
             /\ index' = (index + 1) % SAMPLE_SIZE
             /\ filled' = (filled \/ (index + 1) % SAMPLE_SIZE = 0)
             /\ hist' = LET all == Append(hist, <<t, h, p>>)
                        IN  IF Len(all) > SAMPLE_SIZE THEN Tail(all) ELSE all

\* ------------------------------------------------------------ Init
Init ==
    /\ variant \in {"ring", "direct"}
    /\ pc = "setup"
    /\ caller = "setup"
    /\ clock = 0
    /\ link \in BOOLEAN
    /\ lastAttempt = 0
    /\ start = 0
    /\ lastSend = 0
    /\ tempBuffer = [i \in Slots |-> 0]
    /\ humBuffer = [i \in Slots |-> 0]
    /\ presBuffer = [i \in Slots |-> 0]
    /\ index = 0
    /\ filled = FALSE
    /\ args = <<>>
    /\ payload = ""
    /\ sinceBegin = Never
    /\ beginGap = Never
    /\ expired = FALSE
    /\ sinceSend = Never
    /\ sendGap = Never
    /\ ageAttempt = Never
    /\ ageSend = Never
    /\ hist = <<>>
    /\ nRead = 0
    /\ nPost = 0
    /\ nSkip = 0
    /\ outcome = "none"
    /\ cycleNoData = <<>>

\* ------------------------------------------------------------ setup()
\* setup() without the idle wait of line 158
SetupNoHalt(d, at76, at77) ==
    /\ pc = "setup"
    /\ pc' = "upd"
    /\ caller' = "setup"
    /\ Pass(d, FALSE, FALSE)
    /\ UNCHANGED <<variant, link, wifiVars, lastSend, sensorVars, args, payload, tickObs>>

\* setup(), lines 153-159 and the call of line 161
Setup(d, at76, at77) ==
    /\ pc = "setup"
    /\ pc' = IF SensorBegin(at76, at77) THEN "upd" ELSE "halt"
    /\ caller' = "setup"
    /\ Pass(d, FALSE, FALSE)
    /\ UNCHANGED <<variant, link, wifiVars, lastSend, sensorVars, args, payload, tickObs>>

\* while (1) delay(1000)
Halt(d) ==
    /\ pc = "halt"
    /\ Pass(d, FALSE, FALSE)
    /\ UNCHANGED <<variant, pc, caller, link, wifiVars, lastSend, sensorVars, args, payload, tickObs>>

\* ------------------------------------------------------------ WiFiManager
\* where update() returns to
Return == IF caller = "setup" THEN "loop" ELSE "linkcheck"

\* update() with lastAttempt = now moved before the rate-limit test of line 19
UpdateEntryStampsFirst(d, c) ==
    /\ caller' = c
    /\ IF link
       THEN /\ pc' = (IF c = "setup" THEN "loop" ELSE "linkcheck")
            /\ Pass(d, FALSE, FALSE)
            /\ UNCHANGED <<lastAttempt, beginGap, expired>>
       ELSE /\ lastAttempt' = clock
            /\ pc' = (IF c = "setup" THEN "loop" ELSE "linkcheck")
            /\ Pass(d, FALSE, FALSE)
            /\ UNCHANGED <<beginGap, expired>>
    /\ UNCHANGED <<variant, link, start, lastSend, sensorVars, args, payload>>

\* update() without the link test of line 16
UpdateEntryNoLinkTest(d, c) ==
    /\ caller' = c
    /\ IF Sub(clock, lastAttempt) < WIFI_TIMEOUT_MS
       THEN /\ pc' = (IF c = "setup" THEN "loop" ELSE "linkcheck")
            /\ Pass(d, FALSE, FALSE)
            /\ UNCHANGED <<lastAttempt, beginGap, expired>>
       ELSE /\ lastAttempt' = clock
            /\ beginGap' = sinceBegin
            /\ expired' = FALSE
            /\ pc' = "start"
            /\ Pass(d, TRUE, FALSE)
    /\ UNCHANGED <<variant, link, start, lastSend, sensorVars, args, payload>>

\* update() without the rate limit of line 19
UpdateEntryNoLimit(d, c) ==
    /\ caller' = c
    /\ IF link
       THEN /\ pc' = (IF c = "setup" THEN "loop" ELSE "linkcheck")
            /\ Pass(d, FALSE, FALSE)
            /\ UNCHANGED <<lastAttempt, beginGap, expired>>
       ELSE /\ lastAttempt' = clock
            /\ beginGap' = sinceBegin
            /\ expired' = FALSE
            /\ pc' = "start"
            /\ Pass(d, TRUE, FALSE)
    /\ UNCHANGED <<variant, link, start, lastSend, sensorVars, args, payload>>

\* WiFiManager::update, lines 16-23, called by c
UpdateEntry(d, c) ==
    /\ caller' = c
    /\ IF link
       THEN /\ pc' = (IF c = "setup" THEN "loop" ELSE "linkcheck")
            /\ Pass(d, FALSE, FALSE)
            /\ UNCHANGED <<lastAttempt, beginGap, expired>>
       ELSE IF Sub(clock, lastAttempt) < WIFI_TIMEOUT_MS
       THEN /\ pc' = (IF c = "setup" THEN "loop" ELSE "linkcheck")
            /\ Pass(d, FALSE, FALSE)
            /\ UNCHANGED <<lastAttempt, beginGap, expired>>
       ELSE /\ lastAttempt' = clock
            /\ beginGap' = sinceBegin
            /\ expired' = FALSE
            /\ pc' = "start"
            /\ Pass(d, TRUE, FALSE)
    /\ UNCHANGED <<variant, link, start, lastSend, sensorVars, args, payload>>

\* setup(), line 161
SetupUpdate(d) ==
    /\ pc = "upd"
    /\ UpdateEntry(d, "setup")
    /\ UNCHANGED tickObs

\* line 25
Start(d) ==
    /\ pc = "start"
    /\ start' = clock
    /\ pc' = "poll"
    /\ Pass(d, FALSE, FALSE)
    /\ UNCHANGED <<variant, caller, link, lastAttempt, beginGap, expired, lastSend, sensorVars, args, payload, tickObs>>

\* line 26 with a single delay in place of the polling loop
PollOnce(d) ==
    /\ pc = "poll"
    /\ pc' = "done"
    /\ expired' = ~link
    /\ Pass(POLL_DELAY + d, FALSE, FALSE)
    /\ UNCHANGED <<variant, caller, link, lastAttempt, start, beginGap, lastSend, sensorVars, args, payload, tickObs>>

\* one evaluation of the while condition of line 26, and the body if it holds
Poll(d) ==
    /\ pc = "poll"
    /\ IF ~link /\ Sub(clock, start) < WIFI_TIMEOUT_MS
       THEN /\ pc' = "poll"
            /\ Pass(POLL_DELAY + d, FALSE, FALSE)
            /\ UNCHANGED expired
       ELSE /\ pc' = "done"
            /\ Pass(d, FALSE, FALSE)
            /\ expired' = ~link
    /\ UNCHANGED <<variant, caller, link, lastAttempt, start, beginGap, lastSend, sensorVars, args, payload, tickObs>>

\* lines 31-37 with lastAttempt stamped at the end of the attempt
DoneStampsLastAttempt(d) ==
    /\ pc = "done"
    /\ pc' = Return
    /\ start' = 0
    /\ beginGap' = Never
    /\ lastAttempt' = clock
    /\ Pass(d, FALSE, FALSE)
    /\ UNCHANGED <<variant, caller, link, expired, lastSend, sensorVars, args, payload, tickObs>>

\* lines 31-37
Done(d) ==
    /\ pc = "done"
    /\ pc' = Return
    /\ start' = 0
    /\ beginGap' = Never
    /\ Pass(d, FALSE, FALSE)
    /\ UNCHANGED <<variant, caller, link, lastAttempt, expired, lastSend, sensorVars, args, payload, tickObs>>

\* ------------------------------------------------------------ loop()
\* entry of loop() and line 166
Loop(d) ==
    /\ pc = "loop"
    /\ UpdateEntry(d, "loop")
    /\ nRead' = 0 /\ nPost' = 0 /\ nSkip' = 0 /\ outcome' = "none" /\ sendGap' = Never
    /\ cycleNoData' = <<>>

\* line 168 without the return
LinkCheckNoReturn(d) ==
    /\ pc = "linkcheck"
    /\ pc' = IF variant = "ring" THEN "sample" ELSE "measure"
    /\ outcome' = outcome
    /\ Pass(d, FALSE, FALSE)
    /\ UNCHANGED <<variant, caller, link, wifiVars, lastSend, sensorVars, args, payload,
                   nRead, nPost, nSkip, sendGap, cycleNoData>>

\* line 168
LinkCheck(d) ==
    /\ pc = "linkcheck"
    /\ pc' = IF ~link THEN "loop" ELSE IF variant = "ring" THEN "sample" ELSE "measure"
    /\ outcome' = IF ~link THEN "nolink" ELSE outcome
    /\ Pass(d, FALSE, FALSE)
    /\ UNCHANGED <<variant, caller, link, wifiVars, lastSend, sensorVars, args, payload,
                   nRead, nPost, nSkip, sendGap, cycleNoData>>

\* lines 170-185 with lastSend = now moved before the if of line 173
SampleStampsEveryTick(d, t, h, rawp) ==
    /\ pc = "sample"
    /\ SensorUpdate(t, h, rawp)
    /\ nRead' = nRead + 1
    /\ lastSend' = clock
    /\ pc' = "loop"
    /\ outcome' = "notdue"
    /\ Pass(d, FALSE, FALSE)
    /\ UNCHANGED <<args, payload, nSkip, sendGap, cycleNoData>>
    /\ UNCHANGED <<variant, caller, link, wifiVars, nPost>>

\* lines 170-185 without the isnan test of line 180
SampleNoSkip(d, t, h, rawp) ==
    /\ pc = "sample"
    /\ SensorUpdate(t, h, rawp)
    /\ nRead' = nRead + 1
    /\ IF Sub(clock, lastSend) >= INTERVAL_MS
       THEN /\ lastSend' = clock
            /\ sendGap' = sinceSend
            /\ Pass(d, FALSE, TRUE)
            /\ args' = <<average(tempBuffer)', average(humBuffer)', average(presBuffer)'>> /\ UNCHANGED payload
            /\ cycleNoData' = <<isnanQ(average(tempBuffer)'), isnanQ(average(humBuffer)'),
                                isnanQ(average(presBuffer)')>>
            /\ pc' = "send"
            /\ UNCHANGED <<nSkip, outcome>>
       ELSE /\ pc' = "loop"
            /\ outcome' = "notdue"
            /\ Pass(d, FALSE, FALSE)
            /\ UNCHANGED <<lastSend, args, payload, nSkip, sendGap, cycleNoData>>
    /\ UNCHANGED <<variant, caller, link, wifiVars, nPost>>

\* lines 170-185 with sensor.update() moved into the if of line 173
SampleOnlyWhenDue(d, t, h, rawp) ==
    /\ pc = "sample"
    /\ IF Sub(clock, lastSend) >= INTERVAL_MS
       THEN /\ SensorUpdate(t, h, rawp)
            /\ nRead' = nRead + 1
            /\ lastSend' = clock
            /\ sendGap' = sinceSend
            /\ Pass(d, FALSE, TRUE)
            /\ LET temp == average(tempBuffer)'
                   hum == average(humBuffer)'
                   pres == average(presBuffer)'
               IN  /\ cycleNoData' = <<isnanQ(temp), isnanQ(hum), isnanQ(pres)>>
                   /\ IF isnanQ(temp) \/ isnanQ(hum) \/ isnanQ(pres)
                      THEN /\ nSkip' = nSkip + 1
                           /\ outcome' = "skip"
                           /\ pc' = "loop"
                           /\ UNCHANGED <<args, payload>>
                      ELSE /\ args' = <<temp, hum, pres>> /\ UNCHANGED payload
                           /\ pc' = "send"
                           /\ UNCHANGED <<nSkip, outcome>>
       ELSE /\ pc' = "loop"
            /\ outcome' = "notdue"
            /\ Pass(d, FALSE, FALSE)
            /\ UNCHANGED <<sensorVars, nRead, lastSend, args, payload, nSkip, sendGap, cycleNoData>>
    /\ UNCHANGED <<variant, caller, link, wifiVars, nPost>>

\* lines 170-185 with lastSend set only when the averages are sent
SampleStampOnSend(d, t, h, rawp) ==
    /\ pc = "sample"
    /\ SensorUpdate(t, h, rawp)
    /\ nRead' = nRead + 1
    /\ IF Sub(clock, lastSend) >= INTERVAL_MS
       THEN /\ sendGap' = sinceSend
            /\ Pass(d, FALSE, TRUE)
            /\ LET temp == average(tempBuffer)'
                   hum == average(humBuffer)'
                   pres == average(presBuffer)'
               IN  /\ cycleNoData' = <<isnanQ(temp), isnanQ(hum), isnanQ(pres)>>
                   /\ IF isnanQ(temp) \/ isnanQ(hum) \/ isnanQ(pres)
                      THEN /\ nSkip' = nSkip + 1
                           /\ outcome' = "skip"
                           /\ pc' = "loop"
                           /\ UNCHANGED <<args, payload, lastSend>>
                      ELSE /\ args' = <<temp, hum, pres>> /\ UNCHANGED payload
                           /\ lastSend' = clock
                           /\ pc' = "send"
                           /\ UNCHANGED <<nSkip, outcome>>
       ELSE /\ pc' = "loop"
            /\ outcome' = "notdue"
            /\ Pass(d, FALSE, FALSE)
            /\ UNCHANGED <<lastSend, args, payload, nSkip, sendGap, cycleNoData>>
    /\ UNCHANGED <<variant, caller, link, wifiVars, nPost>>

\* lines 170-185 with the averages taken before sensor.update()
SampleAveragesFirst(d, t, h, rawp) ==
    /\ pc = "sample"
    /\ SensorUpdate(t, h, rawp)
    /\ nRead' = nRead + 1
    /\ IF Sub(clock, lastSend) >= INTERVAL_MS
       THEN /\ lastSend' = clock
            /\ sendGap' = sinceSend
            /\ Pass(d, FALSE, TRUE)
            /\ LET temp == average(tempBuffer)
                   hum == average(humBuffer)
                   pres == average(presBuffer)
               IN  /\ cycleNoData' = <<isnanQ(temp), isnanQ(hum), isnanQ(pres)>>
                   /\ IF isnanQ(temp) \/ isnanQ(hum) \/ isnanQ(pres)
                      THEN /\ nSkip' = nSkip + 1
                           /\ outcome' = "skip"
                           /\ pc' = "loop"
                           /\ UNCHANGED <<args, payload>>
                      ELSE /\ args' = <<temp, hum, pres>> /\ UNCHANGED payload
                           /\ pc' = "send"
                           /\ UNCHANGED <<nSkip, outcome>>
       ELSE /\ pc' = "loop"
            /\ outcome' = "notdue"
            /\ Pass(d, FALSE, FALSE)
            /\ UNCHANGED <<lastSend, args, payload, nSkip, sendGap, cycleNoData>>
    /\ UNCHANGED <<variant, caller, link, wifiVars, nPost>>

\* lines 170-185: sensor.update(), the cadence test, the averages
Sample(d, t, h, rawp) ==
    /\ pc = "sample"
    /\ SensorUpdate(t, h, rawp)
    /\ nRead' = nRead + 1
    /\ IF Sub(clock, lastSend) >= INTERVAL_MS
       THEN /\ lastSend' = clock
            /\ sendGap' = sinceSend
            /\ Pass(d, FALSE, TRUE)
            /\ LET temp == average(tempBuffer)'
                   hum == average(humBuffer)'
                   pres == average(presBuffer)'
               IN  /\ cycleNoData' = <<isnanQ(temp), isnanQ(hum), isnanQ(pres)>>
                   /\ IF isnanQ(temp) \/ isnanQ(hum) \/ isnanQ(pres)
                      THEN /\ nSkip' = nSkip + 1
                           /\ outcome' = "skip"
                           /\ pc' = "loop"
                           /\ UNCHANGED <<args, payload>>
                      ELSE /\ args' = <<temp, hum, pres>> /\ UNCHANGED payload
                           /\ pc' = "send"
                           /\ UNCHANGED <<nSkip, outcome>>
       ELSE /\ pc' = "loop"
            /\ outcome' = "notdue"
            /\ Pass(d, FALSE, FALSE)
            /\ UNCHANGED <<lastSend, args, payload, nSkip, sendGap, cycleNoData>>
    /\ UNCHANGED <<variant, caller, link, wifiVars, nPost>>

\* part_000, loop() lines 151-164: the cadence test and the three measurements
Measure(d, ts, hs, ps) ==
    /\ pc = "measure"
    /\ IF Sub(clock, lastSend) >= INTERVAL_MS
       THEN /\ lastSend' = clock
            /\ sendGap' = sinceSend
            /\ nRead' = nRead + SAMPLE_SIZE
            /\ Pass(MeasureTime + d, FALSE, TRUE)
            /\ LET temp == measureAverage(ts)
                   hum == measureAverage(hs)
                   pres == measureAverage(ps)
               IN  /\ cycleNoData' = <<isnanQ(temp), isnanQ(hum), isnanQ(pres)>>
                   /\ IF isnanQ(temp) \/ isnanQ(hum) \/ isnanQ(pres)
                      THEN /\ nSkip' = nSkip + 1
                           /\ outcome' = "skip"
                           /\ pc' = "loop"
                           /\ UNCHANGED <<args, payload>>
                      ELSE /\ args' = <<temp, hum, pres>> /\ UNCHANGED payload
                           /\ pc' = "send"
                           /\ UNCHANGED <<nSkip, outcome>>
       ELSE /\ pc' = "loop"
            /\ outcome' = "notdue"
            /\ Pass(d, FALSE, FALSE)
            /\ UNCHANGED <<lastSend, args, payload, nRead, nSkip, sendGap, cycleNoData>>
    /\ UNCHANGED <<variant, caller, link, wifiVars, sensorVars, nPost>>

\* ------------------------------------------------------------ DataSender
\* the api key the sender is constructed with (line 147)
API_KEY == "abc"

\* the decimal digits as characters
DigitChar == <<"0", "1", "2", "3", "4", "5", "6", "7", "8", "9">>

RECURSIVE UnsignedChars(_)
\* the characters of the unsigned integer n, most significant first
UnsignedChars(n) ==
    IF n < 10 THEN <<DigitChar[n + 1]>>
    ELSE Append(UnsignedChars(n \div 10), DigitChar[(n % 10) + 1])

RECURSIVE FractionChars(_, _, _)
\* the first prec decimal digits of remainder / den (0 <= remainder < den):
\* multiply by ten, print the integer part, keep the rest
FractionChars(remainder, den, prec) ==
    IF prec = 0 THEN <<>>
    ELSE LET toPrint == (remainder * 10) \div den
         IN  <<DigitChar[toPrint + 1]>>
                 \o FractionChars((remainder * 10) % den, den, prec - 1)

\* the characters of String(value, decimalPlaces) for the float q.sum / q.count:
\* the sign, then the magnitude plus 0.5 / 10^decimalPlaces, its integer part
\* and decimalPlaces digits of its fraction (the float is taken as the exact
\* fraction)
FloatChars(q, decimalPlaces) ==
    LET neg == q.sum < 0
        mag == IF neg THEN 0 - q.sum ELSE q.sum
        den == q.count * 2 * (10 ^ decimalPlaces)
        number == mag * 2 * (10 ^ decimalPlaces) + q.count
        int_part == number \div den
    IN  (IF neg THEN <<"-">> ELSE <<>>)
            \o UnsignedChars(int_part)
            \o (IF decimalPlaces > 0 THEN <<".">> ELSE <<>>)
            \o FractionChars(number % den, den, decimalPlaces)

RECURSIVE Join(_)
\* the String made of the characters cs
Join(cs) == IF cs = <<>> THEN "" ELSE Head(cs) \o Join(Tail(cs))

\* send() formatting the three numbers with one decimal digit
PayloadOneDecimal(apiKey, temperature, humidity, pressure) ==
    "{" \o "\"api_key\":\"" \o apiKey \o "\","
        \o "\"content\":{"
        \o "\"temperature\":" \o Join(FloatChars(temperature, 1)) \o ","
        \o "\"humidity\":" \o Join(FloatChars(humidity, 1)) \o ","
        \o "\"pressure\":" \o Join(FloatChars(pressure, 1))
        \o "}}"

\* DataSender::send, lines 121-127: the payload
Payload(apiKey, temperature, humidity, pressure) ==
    "{" \o "\"api_key\":\"" \o apiKey \o "\","
        \o "\"content\":{"
        \o "\"temperature\":" \o Join(FloatChars(temperature, 2)) \o ","
        \o "\"humidity\":" \o Join(FloatChars(humidity, 2)) \o ","
        \o "\"pressure\":" \o Join(FloatChars(pressure, 2))
        \o "}}"

\* send() without the link test of line 110
SendNoLinkTest(d) ==
    /\ pc = "send"
    /\ pc' = "post"
    /\ nPost' = nPost + 1
    /\ UNCHANGED <<outcome, args>>
    /\ Pass(d, FALSE, FALSE)
    /\ UNCHANGED <<variant, caller, link, wifiVars, lastSend, sensorVars, nRead, nSkip, sendGap, cycleNoData>>
    /\ payload' = Payload(API_KEY, args[1], args[2], args[3])

\* DataSender::send, lines 110-129: the link test and the POST request
Send(d) ==
    /\ pc = "send"
    /\ IF ~link
       THEN /\ pc' = "loop"
            /\ outcome' = "linkdown"
            /\ UNCHANGED nPost
       ELSE /\ pc' = "post"
            /\ nPost' = nPost + 1
            /\ UNCHANGED outcome
    /\ args' = IF ~link THEN <<>> ELSE args
    /\ Pass(d, FALSE, FALSE)
    /\ UNCHANGED <<variant, caller, link, wifiVars, lastSend, sensorVars, nRead, nSkip, sendGap, cycleNoData>>
    /\ payload' = IF ~link THEN "" ELSE Payload(API_KEY, args[1], args[2], args[3])

\* lines 129-135: the response of http.POST
Post(d, code) ==
    /\ pc = "post"
    /\ pc' = "loop"
    /\ outcome' = IF code > 0 THEN "delivered" ELSE "failed"
    /\ args' = <<>>
    /\ payload' = ""
    /\ Pass(d, FALSE, FALSE)
    /\ UNCHANGED <<variant, caller, link, wifiVars, lastSend, sensorVars, nRead, nPost, nSkip, sendGap, cycleNoData>>

\* ------------------------------------------------------------ environment
\* the radio gains or loses the link
LinkChange ==
    /\ link' = ~link
    /\ expired' = FALSE
    /\ UNCHANGED <<variant, pc, caller, clock, lastAttempt, start, beginGap, lastSend, sensorVars, args, payload,
                   sinceBegin, sinceSend, ageAttempt, ageSend, tickObs>>

\* ------------------------------------------------------------ specification
Step ==
    \/ /\ pc = "setup"
       /\ \E d \in BootTimes, at76 \in BOOLEAN, at77 \in BOOLEAN : Setup(d, at76, at77)
    \/ \E d \in 1 .. MaxElapse : Halt(d)
    \/ \E d \in Elapsed : SetupUpdate(d)
    \/ \E d \in Elapsed : Start(d)
    \/ \E d \in Elapsed : Poll(d)
    \/ \E d \in Elapsed : Done(d)
    \/ \E d \in Elapsed : Loop(d)
    \/ \E d \in Elapsed : LinkCheck(d)
    \/ /\ pc = "sample"
       /\ \E d \in Elapsed, t \in TempReadings, h \in HumReadings, p \in PresReadings :
             Sample(d, t, h, p)
    \/ /\ pc = "measure"
       /\ \E d \in Elapsed, ts \in ReadRuns(TempReadings), hs \in ReadRuns(HumReadings),
             ps \in ReadRuns(PresReadings) : Measure(d, ts, hs, ps)
    \/ \E d \in Elapsed : Send(d)
    \/ \E d \in Elapsed, code \in {-1, 200} : Post(d, code)

Next == Step \/ LinkChange

Spec == Init /\ [][Next]_vars

\* the thread of control keeps running and the clock keeps advancing: steps
\* that take time keep being taken (every step of the program can take time,
\* so this includes that steps keep being taken at all)
FairSpec ==
    /\ Spec
    /\ WF_vars(Step /\ clock' # clock)

\* the state after construction, with the time since lastAttempt and since
\* lastSend were set recorded
InitWrap ==
    /\ variant \in {"ring", "direct"}
    /\ pc = "setup"
    /\ caller = "setup"
    /\ clock = 0
    /\ link \in BOOLEAN
    /\ lastAttempt = 0
    /\ start = 0
    /\ lastSend = 0
    /\ tempBuffer = [i \in Slots |-> 0]
    /\ humBuffer = [i \in Slots |-> 0]
    /\ presBuffer = [i \in Slots |-> 0]
    /\ index = 0
    /\ filled = FALSE
    /\ args = <<>>
    /\ payload = ""
    /\ sinceBegin = Never
    /\ beginGap = Never
    /\ expired = FALSE
    /\ sinceSend = Never
    /\ sendGap = Never
    /\ ageAttempt = 0
    /\ ageSend = 0
    /\ hist = <<>>
    /\ nRead = 0
    /\ nPost = 0
    /\ nSkip = 0
    /\ outcome = "none"
    /\ cycleNoData = <<>>

\* the whole program, with those times recorded
SpecWrap == InitWrap /\ [][Next]_vars

\* the sample buffer alone: one BME280Sensor::update per step
Ingest(t, h, rawp) ==
    /\ SensorUpdate(t, h, rawp)
    /\ UNCHANGED <<variant, pc, caller, clock, link, wifiVars, lastSend, args, payload,
                   sinceBegin, sinceSend, ageAttempt, ageSend, tickObs>>

NextSensor == \E t \in TempSamples, h \in HumSamples, p \in PresSamples : Ingest(t, h, p)

\* the arguments of the send() calls of the payload-only specification, as
\* exact fractions
PayloadTemps ==
    {[sum |-> 21567, count |-> 1000], [sum |-> 21564, count |-> 1000],
     [sum |-> 21565, count |-> 1000], [sum |-> 1999, count |-> 1000],
     [sum |-> 0 - 5005, count |-> 1000], [sum |-> 0, count |-> 1],
     [sum |-> 10, count |-> 3]}
PayloadHums ==
    {[sum |-> 55100, count |-> 1000], [sum |-> 99999, count |-> 1000],
     [sum |-> 50, count |-> 1], [sum |-> 110, count |-> 3]}
PayloadPress ==
    {[sum |-> 1013000, count |-> 1000], [sum |-> 1000, count |-> 1],
     [sum |-> 3001, count |-> 3]}

\* loop() about to call sender.send(temp, hum, pres), line 185
InitPayload ==
    /\ variant \in {"ring", "direct"}
    /\ pc = "send"
    /\ caller = "loop"
    /\ clock = 0
    /\ link = TRUE
    /\ lastAttempt = 0 /\ start = 0 /\ lastSend = 0
    /\ tempBuffer = [i \in Slots |-> 0]
    /\ humBuffer = [i \in Slots |-> 0]
    /\ presBuffer = [i \in Slots |-> 0]
    /\ index = 0 /\ filled = FALSE
    /\ args \in {<<t, h, p>> : t \in PayloadTemps, h \in PayloadHums, p \in PayloadPress}
    /\ payload = ""
    /\ sinceBegin = Never /\ beginGap = Never /\ expired = FALSE
    /\ sinceSend = 0 /\ sendGap = Never
    /\ ageAttempt = Never /\ ageSend = Never
    /\ hist = <<>>
    /\ nRead = 0 /\ nPost = 0 /\ nSkip = 0
    /\ outcome = "none"
    /\ cycleNoData = <<FALSE, FALSE, FALSE>>

NextPayload ==
    \/ \E d \in Elapsed : Send(d)
    \/ \E d \in Elapsed, code \in {-1, 200} : Post(d, code)

\* one DataSender::send call per behaviour
SpecPayload == InitPayload /\ [][NextPayload]_vars

\* the program of src/src/main.cpp before its first reading
InitSensor == Init /\ variant = "ring"

SpecSensor == InitSensor /\ [][NextSensor]_vars

\* ============================================================ properties

\* ------------------------------------------------------------ C1
\* C1: two successive connect requests (WiFi.begin) are at least
\* WIFI_TIMEOUT_MS apart in elapsed time, whatever the tick frequency and the
\* link events between them: whenever update() has issued a request that was
\* not the first, the time elapsed since the request before it is at least
\* the timeout.
C1_ConnectRequestsApart ==
    beginGap # Never => beginGap >= WIFI_TIMEOUT_MS

\* update() has just issued a connect request that was not the first
C1_Witness ==
    /\ pc = "start"
    /\ beginGap # Never

\* ------------------------------------------------------------ C2
RECURSIVE HistSum(_, _)
\* the sum of channel ch over the readings of h
HistSum(h, ch) == IF h = <<>> THEN 0 ELSE Head(h)[ch] + HistSum(Tail(h), ch)

\* the fraction q is the arithmetic mean of channel ch of the readings of h
IsMeanOf(q, h, ch) ==
    /\ q.count # 0
    /\ q.sum * Len(h) = HistSum(h, ch) * q.count

\* C2: after k >= 1 valid ingests the average of each channel is the
\* arithmetic mean of the last min(k, SAMPLE_SIZE) ingested values of that
\* channel (hist holds exactly those, oldest first).
C2_AverageIsMeanOfLastN ==
    hist # <<>> =>
        /\ IsMeanOf(average(tempBuffer), hist, 1)
        /\ IsMeanOf(average(humBuffer), hist, 2)
        /\ IsMeanOf(average(presBuffer), hist, 3)

\* more ingests than the capacity, the oldest evicted: with capacity 3 the
\* readings 10, 20, 30, 40 leave 20, 30, 40 and the average 90 / 3
C2_Witness ==
    /\ filled
    /\ index = 1
    /\ [i \in 1 .. Len(hist) |-> hist[i][1]] = <<20, 30, 40>>
    /\ average(tempBuffer) = [sum |-> 90, count |-> 3]

\* ------------------------------------------------------------ C3
\* this step runs the loop's sampling and cadence code
Samples == pc \in {"sample", "measure"} /\ pc' # pc

\* this step triggers a report attempt (the body of the if of line 173 runs)
Triggers == Samples /\ (pc' = "send" \/ outcome' = "skip")

\* C3: a report attempt is triggered only when now - lastSend >= INTERVAL_MS
\* and lastSend is set to now at that moment, before the averages and the
\* POST; lastSend changes at no other step; so two consecutive report
\* attempts are at least INTERVAL_MS apart, however the attempt before ended.
C3_ReportCadence ==
    /\ [](sendGap # Never => sendGap >= INTERVAL_MS)
    /\ []((sinceSend # Never /\ sinceSend < INTERVAL_MS) => Sub(clock, lastSend) = sinceSend)
    /\ [][Triggers => (Sub(clock, lastSend) >= INTERVAL_MS /\ lastSend' = clock)]_vars
    /\ [][lastSend' # lastSend => Triggers]_vars

\* a report attempt that follows an earlier one is about to reach the POST
C3_Witness ==
    /\ pc = "send"
    /\ sendGap # Never

\* ------------------------------------------------------------ C4
\* C4: send() never invokes the HTTP transport when the link status read at
\* its entry is not connected: the step of send() taken with the link down
\* returns to the loop with no POST issued, and the tick that ends this way
\* has made zero POST calls.
C4_NoPostWhenLinkDown ==
    /\ [][(pc = "send" /\ ~link /\ pc' # "send") =>
             (pc' = "loop" /\ nPost' = 0 /\ outcome' = "linkdown")]_vars
    /\ [](outcome = "linkdown" => (nPost = 0 /\ pc = "loop"))
    /\ [](pc = "post" => nPost = 1)

\* the link dropped between the loop's own link check and the entry of send()
C4_Witness ==
    /\ pc = "loop"
    /\ outcome = "linkdown"
    /\ nRead = 1
    /\ nPost = 0

\* ------------------------------------------------------------ C5
\* the current tick ran a send cycle in which some channel's average was NAN
SomeNoData == cycleNoData # <<>> /\ (\E i \in 1 .. 3 : cycleNoData[i])

\* C5: in a send cycle (cadence elapsed) where the average of at least one
\* channel is "no data", the loop makes no transport call and emits exactly
\* one skip log, also when other channels have valid averages; the cycle
\* still consumes the interval (lastSend is updated) and the program goes on
\* to the next tick.
C5_SkipOnNoData ==
    /\ [][(Samples /\ Sub(clock, lastSend) >= INTERVAL_MS) => cycleNoData' # <<>>]_vars
    /\ [][(Samples /\ variant = "ring" /\ cycleNoData' # <<>>) =>
             cycleNoData' = <<isnanQ(average(tempBuffer)'), isnanQ(average(humBuffer)'),
                              isnanQ(average(presBuffer)')>>]_vars
    /\ [][(Samples /\ SomeNoData') =>
             (/\ pc' = "loop" /\ outcome' = "skip"
              /\ nSkip' = 1 /\ nPost' = 0
              /\ lastSend' = clock)]_vars
    /\ [](SomeNoData =>
             (/\ pc = "loop" /\ outcome = "skip" /\ nSkip = 1 /\ nPost = 0
              /\ sinceSend # Never /\ ENABLED Step))

\* a send cycle skipped because the humidity average alone had no data
C5_Witness ==
    /\ pc = "loop"
    /\ outcome = "skip"
    /\ cycleNoData = <<FALSE, TRUE, FALSE>>
    /\ nSkip = 1 /\ nPost = 0

\* ------------------------------------------------------------ C6
\* C6: the average of a channel is "no data" (NAN, not zero, not any other
\* number) exactly when no valid sample has ever been stored; once a valid
\* sample has been stored the average is a number in every later state.
\* (measureAverage of part_000 stores nothing: its result is NAN exactly when
\* no valid reading entered it.)
C6_NoDataIffEmpty ==
    /\ [](\A buffer \in {tempBuffer, humBuffer, presBuffer} :
             /\ isnanQ(average(buffer)) <=> hist = <<>>
             /\ hist = <<>> => average(buffer) = NANQ)
    /\ [][hist # <<>> => hist' # <<>>]_vars
    /\ [](\A r \in [1 .. SAMPLE_SIZE -> TempReadings] :
             /\ isnanQ(measureAverage(r)) <=> (\A i \in 1 .. SAMPLE_SIZE : isnan(r[i]))
             /\ isnanQ(measureAverage(r)) => measureAverage(r) = NANQ)

\* the cursor is back at 0 with the buffer full, and the average is a number
C6_Witness ==
    /\ filled
    /\ index = 0
    /\ ~isnanQ(average(tempBuffer))

\* ------------------------------------------------------------ C7
\* C7: when the sensor has initialised and the link is down, the call of
\* wifiManager.update() in setup() issues a connect request before the first
\* call of loop().
C7_SetupConnects ==
    [][(pc = "upd" /\ ~link /\ pc' # "upd") => pc' = "start"]_vars

\* ------------------------------------------------------------ C8
\* C8: under a clock that keeps advancing and a loop that keeps ticking, a
\* failed connection attempt is not fatal and the supervisor retries for ever:
\* if from some point on the link stays down (and the process has not halted
\* in setup()), connect requests are issued infinitely often.
C8_RetriesForever ==
    <>[](~link /\ pc # "halt") => []<>(pc = "start")

\* a connect window has expired with the link still down
C8_Witness ==
    /\ pc = "done"
    /\ ~link
    /\ sinceBegin = WIFI_TIMEOUT_MS

\* ------------------------------------------------------------ C9
\* what this step draws from the sensor, if anything, is valid on all three
\* channels: a reading of the ring build is ingested (the cursor moves), a
\* measurement of the direct build leaves no channel without data
ValidReading ==
    Samples => IF variant = "ring" THEN index' # index ELSE ~SomeNoData'

\* C9: if from some point on the link stays up, the sensor returns valid
\* readings on all three channels and the clock keeps advancing (and the
\* process has not halted in setup()), a POST is issued infinitely often.
C9_ReportsForever ==
    (<>[](link /\ pc # "halt") /\ <>[][ValidReading]_vars) => []<>(pc = "post")

\* a POST is in flight for a report attempt that follows an earlier one
C9_Witness ==
    /\ pc = "post"
    /\ link
    /\ sendGap # Never
    /\ hist # <<>>

\* ------------------------------------------------------------ C10
\* the current tick found the link up after the supervisor update
LinkWasUp ==
    \/ pc \in {"send", "post"}
    \/ pc = "loop" /\ outcome \in {"notdue", "skip", "linkdown", "delivered", "failed"}

\* C10 as stated: on every tick in which the link is up after the supervisor
\* update the scheduler draws exactly one reading from the sensor, whether or
\* not the send cadence has elapsed.
C10_OneReadingPerTick ==
    LinkWasUp => nRead = 1

\* C10 for the ring build (src/src/main.cpp): on every tick in which the link
\* is up after the supervisor update the scheduler draws exactly one reading
\* and ingests it (a valid reading advances the cursor by one slot, an invalid
\* one is dropped), whether or not the send cadence has elapsed.  The direct
\* build (src/unnamed/part_000) draws no reading on a tick whose cadence has
\* not elapsed and SAMPLE_SIZE readings of each channel on a tick whose
\* cadence has, and stores none.
C10_RingOneReadingPerTick ==
    /\ []((variant = "direct" /\ LinkWasUp) =>
             /\ nRead = (IF outcome = "notdue" THEN 0 ELSE SAMPLE_SIZE)
             /\ hist = <<>>)
    /\ []((variant = "ring" /\ LinkWasUp) => nRead = 1)
    /\ []((variant = "ring" /\ pc = "sample") => nRead = 0)
    /\ [][(variant = "ring" /\ pc = "linkcheck" /\ link /\ pc' # "linkcheck")
              => pc' = "sample"]_vars
    /\ [][(pc = "sample" /\ pc' # "sample") =>
             (/\ nRead' = 1
              /\ \/ index' = (index + 1) % SAMPLE_SIZE
                 \/ UNCHANGED sensorVars)]_vars
    /\ [][(variant = "ring" /\ nRead' # nRead) => (pc = "sample" \/ pc = "loop")]_vars

\* a tick of the ring build on which the cadence had not elapsed has drawn
\* and ingested its one reading
C10_Witness ==
    /\ variant = "ring"
    /\ pc = "loop"
    /\ outcome = "notdue"
    /\ nRead = 1
    /\ hist # <<>>

\* ------------------------------------------------------------ C11
\* C11: on a tick in which the link is not up after the supervisor update
\* (the test of line 168 finds it down) the scheduler skips every remaining
\* step: the tick ends there, no sensor reading is drawn, the buffers, the
\* cursor and the full flag are unchanged, lastSend is unchanged and no POST
\* is issued, even when the send interval has elapsed; sampling and sending
\* are entered only from a link test that found the link up.
C11_SkipTickWhenLinkDown ==
    /\ [][(pc = "linkcheck" /\ ~link /\ pc' # pc) =>
             /\ pc' = "loop"
             /\ outcome' = "nolink"
             /\ UNCHANGED <<sensorVars, lastSend, args, nRead, nPost, nSkip>>]_vars
    /\ []((pc = "loop" /\ outcome = "nolink") => (nRead = 0 /\ nPost = 0 /\ nSkip = 0))
    /\ [][(pc' \in {"sample", "measure"} /\ pc' # pc) => (pc = "linkcheck" /\ link)]_vars
    /\ [][(pc \in {"loop", "linkcheck"} /\ pc' \in {"loop", "linkcheck"}) =>
             UNCHANGED <<sensorVars, lastSend>>]_vars

\* a tick that ended at the link test although the send interval had elapsed
\* since the last report attempt and the buffer held samples
C11_Witness ==
    /\ pc = "loop"
    /\ outcome = "nolink"
    /\ sinceSend = INTERVAL_MS
    /\ Sub(clock, lastSend) >= INTERVAL_MS
    /\ hist # <<>>
    /\ nRead = 0
    /\ nPost = 0

\* ------------------------------------------------------------ C12
\* C12: when the sensor answers at neither 0x76 nor 0x77, setup() halts
\* forever (and only then): the process stays in the idle wait, loop() is
\* never entered, and no connect request, no sample ingest and no report
\* attempt or POST occurs afterwards, however long the link stays down.
C12_HaltsWithoutSensor ==
    /\ [][\A d \in BootTimes : Setup(d, FALSE, FALSE) => pc' = "halt"]_vars
    /\ [][\A d \in BootTimes, at76 \in BOOLEAN, at77 \in BOOLEAN :
             (Setup(d, at76, at77) /\ (at76 \/ at77)) => pc' = "upd"]_vars
    /\ [][pc = "halt" =>
             /\ pc' = "halt"
             /\ UNCHANGED <<wifiVars, lastSend, sensorVars, args, tickObs>>]_vars
    /\ [](pc = "halt" =>
             /\ sinceBegin = Never /\ beginGap = Never /\ lastAttempt = 0
             /\ hist = <<>> /\ index = 0 /\ ~filled
             /\ sinceSend = Never /\ lastSend = 0
             /\ nRead = 0 /\ nPost = 0 /\ outcome = "none")

\* halted with the link down for longer than the connect timeout: no connect
\* request has been issued
C12_Witness ==
    /\ pc = "halt"
    /\ ~link
    /\ clock > WIFI_TIMEOUT_MS
    /\ sinceBegin = Never

\* ------------------------------------------------------------ C13
IsDigit(c) == \E d \in 1 .. 10 : DigitChar[d] = c
DigitVal(c) == (CHOOSE d \in 1 .. 10 : DigitChar[d] = c) - 1

\* the characters cs without a leading minus sign
Unsigned(cs) == IF cs # <<>> /\ Head(cs) = "-" THEN Tail(cs) ELSE cs

\* cs reads as a JSON number with exactly two decimal digits: an optional
\* minus sign, one or more digits without a leading zero, a point, two digits
TwoDecimalShape(cs) ==
    LET body == Unsigned(cs)
        n == Len(body)
    IN  /\ n >= 4
        /\ body[n - 2] = "."
        /\ \A i \in (1 .. n) \ {n - 2} : IsDigit(body[i])
        /\ n > 4 => body[1] # "0"

RECURSIVE DigitsValue(_)
\* the number the digits ds spell
DigitsValue(ds) ==
    IF ds = <<>> THEN 0
    ELSE 10 * DigitsValue(SubSeq(ds, 1, Len(ds) - 1)) + DigitVal(ds[Len(ds)])

\* the number of hundredths the two-decimal number cs spells
ParseHundredths(cs) ==
    LET body == Unsigned(cs)
        n == Len(body)
        magnitude == DigitsValue(SubSeq(body, 1, n - 3) \o SubSeq(body, n - 1, n))
    IN  IF Head(cs) = "-" THEN 0 - magnitude ELSE magnitude

\* n / 100 is a multiple of 0.01 nearest to q.sum / q.count
IsNearestHundredth(n, q) ==
    LET diff == 100 * q.sum - n * q.count
    IN  2 * (IF diff < 0 THEN 0 - diff ELSE diff) <= q.count

\* the arguments and the body of the example
ExampleArgs ==
    <<[sum |-> 21567, count |-> 1000], [sum |-> 55100, count |-> 1000],
      [sum |-> 1013000, count |-> 1000]>>
ExampleBody ==
    "{\"api_key\":\"abc\",\"content\":{\"temperature\":21.57,\"humidity\":55.10,\"pressure\":1013.00}}"

\* C13: the body posted by DataSender::send is exactly
\* {"api_key":"<key>","content":{"temperature":<t>,"humidity":<h>,"pressure":<p>}}
\* with the fields in this order, where each of <t>, <h>, <p> is written with
\* exactly two decimal digits and is the argument rounded to the nearest
\* hundredth; for 21.567, 55.1, 1013.0 and the key abc it is the example body.
C13_PayloadShape ==
    pc = "post" =>
        LET t == FloatChars(args[1], 2)
            h == FloatChars(args[2], 2)
            p == FloatChars(args[3], 2)
        IN  /\ payload = "{\"api_key\":\"" \o API_KEY
                              \o "\",\"content\":{\"temperature\":" \o Join(t)
                              \o ",\"humidity\":" \o Join(h)
                              \o ",\"pressure\":" \o Join(p) \o "}}"
            /\ \A i \in 1 .. 3 :
                   LET cs == FloatChars(args[i], 2)
                   IN  /\ TwoDecimalShape(cs)
                       /\ IsNearestHundredth(ParseHundredths(cs), args[i])
            /\ args = ExampleArgs => payload = ExampleBody

\* the POST of the example is in flight
C13_Witness ==
    /\ pc = "post"
    /\ args = ExampleArgs
    /\ payload = ExampleBody
    /\ API_KEY = "abc"

\* ------------------------------------------------------------ C14
\* the slots that average() counts
Counted == IF filled THEN Slots ELSE 0 .. (index - 1)

\* C14: a reading that is invalid on any of the three channels is dropped
\* whole by BME280Sensor::update(): no buffer, nor the cursor, nor the full
\* flag changes; so no slot counted for averaging ever holds an invalid value;
\* and the tick goes on to the cadence test (the failure is not fatal).
C14_InvalidSampleDropped ==
    /\ [][\A d \in Elapsed, t \in TempReadings, h \in HumReadings, p \in PresReadings :
             (Sample(d, t, h, p) /\ (isnan(t) \/ isnan(h) \/ isnan(p))) =>
                 /\ UNCHANGED <<tempBuffer, humBuffer, presBuffer, index, filled>>
                 /\ nRead' = nRead + 1
                 /\ pc' \in {"loop", "send"}]_vars
    /\ [](\A i \in Counted :
             ~isnan(tempBuffer[i]) /\ ~isnan(humBuffer[i]) /\ ~isnan(presBuffer[i]))

\* a tick of the ring build has drawn its reading and stored nothing, the
\* send cycle found no data, and the program is back at the top of loop()
C14_Witness ==
    /\ variant = "ring"
    /\ pc = "loop"
    /\ nRead = 1
    /\ outcome = "skip"
    /\ hist = <<>>
    /\ index = 0 /\ ~filled

\* ------------------------------------------------------------ C15
\* C15: the cursor is always in 0 .. SAMPLE_SIZE - 1; the number of elements
\* average() considers is SAMPLE_SIZE once the full flag is set and the number
\* of valid writes so far otherwise (hist records the valid writes, up to
\* SAMPLE_SIZE of them); the full flag is set exactly in the step in which
\* the cursor wraps to 0 for the first time, that is after the
\* SAMPLE_SIZE-th valid ingest, and is never cleared.
C15_CursorAndCount ==
    /\ [](index \in Slots)
    /\ [](\A b \in {tempBuffer, humBuffer, presBuffer} :
             average(b).count = (IF filled THEN SAMPLE_SIZE ELSE index))
    /\ [](~filled => index = Len(hist))
    /\ [](filled <=> Len(hist) = SAMPLE_SIZE)
    /\ [][filled => filled']_vars
    /\ [][(~filled /\ filled') => (index = SAMPLE_SIZE - 1 /\ index' = 0)]_vars
    /\ [][(index # 0 /\ index' = 0) => filled']_vars
    /\ [][index' # index => index' = (index + 1) % SAMPLE_SIZE]_vars

\* the cursor has wrapped a second time: the flag set at the first wrap is
\* still set and the count is the capacity
C15_Witness ==
    /\ filled
    /\ index = 0
    /\ Len(hist) = SAMPLE_SIZE
    /\ [i \in 1 .. Len(hist) |-> hist[i][1]] = <<40, 10, 20>>
    /\ average(tempBuffer) = [sum |-> 70, count |-> SAMPLE_SIZE]

\* ------------------------------------------------------------ C16
\* this step is a call of WiFiManager::update() that finds the link up
EntersUpdateLinkUp == pc \in {"upd", "loop"} /\ link /\ pc' # pc

\* C16: WiFiManager::update() is a no-op when the link reports up at its
\* entry: it issues no connect request, changes neither lastAttempt nor
\* anything else of the supervisor, and returns to its caller without
\* entering the polling wait, whatever the time elapsed since the last attempt.
C16_UpdateNoOpWhenLinkUp ==
    [][EntersUpdateLinkUp =>
          /\ pc' = (IF pc = "upd" THEN "loop" ELSE "linkcheck")
          /\ UNCHANGED <<wifiVars, lastSend, sensorVars, link>>
          /\ sinceBegin' = Later(sinceBegin, Sub(clock', clock), WIFI_TIMEOUT_MS)]_vars

\* update() has returned to loop() without a connect request, and none was
\* ever issued, although more than the timeout had elapsed since lastAttempt
\* when it was entered: the link was up at its entry
C16_Witness ==
    /\ pc = "linkcheck"
    /\ sinceBegin = Never
    /\ lastAttempt = 0
    /\ clock >= WIFI_TIMEOUT_MS + MaxElapse
    /\ clock < ClockMod - MaxElapse

\* ------------------------------------------------------------ C17
\* update() is between its connect request and its return
Connecting == pc \in {"start", "poll", "done"}

\* C17: a reconnect attempt always runs to completion: with the clock
\* advancing, every call of update() that issues a connect request returns
\* to its caller; it leaves the polling wait only when it observes the link
\* up or when at least WIFI_TIMEOUT_MS have elapsed since the wait started;
\* and between the connect request and the return nothing is sampled or
\* sent and no further connect request is issued.
C17_AttemptRunsToCompletion ==
    /\ (pc = "start") ~> (pc \in {"loop", "linkcheck"})
    /\ [][(pc = "poll" /\ pc' # "poll") =>
             (pc' = "done" /\ (link \/ Sub(clock, start) >= WIFI_TIMEOUT_MS))]_vars
    /\ [][Connecting =>
             /\ Connecting' \/ (pc = "done" /\ pc' = Return)
             /\ UNCHANGED <<lastAttempt, lastSend, sensorVars, args, payload, tickObs>>]_vars

\* an attempt of loop() has left the polling wait before the window expired:
\* it observed the link up
C17_Witness ==
    /\ pc = "done"
    /\ caller = "loop"
    /\ link
    /\ Sub(clock, start) < WIFI_TIMEOUT_MS
    /\ beginGap # Never

\* ------------------------------------------------------------ C18
\* this step is a call of update() that finds the link down and returns
\* without a connect request: the rate limit of line 19 declined it
Declines == pc \in {"upd", "loop"} /\ ~link /\ pc' \notin {pc, "start"}

\* C18: when the polling wait ends because the window expired with the link
\* down, now - lastAttempt >= WIFI_TIMEOUT_MS holds already, and it keeps
\* holding while the link stays down; so the next call of update() with the
\* link still down issues a connect request at once, and while the link
\* stays down after an expired window no call of update() is declined by the
\* rate limit.
C18_NoIdleTickBetweenAttempts ==
    /\ [][(pc = "poll" /\ pc' = "done" /\ ~link) =>
             (Sub(clock, lastAttempt) >= WIFI_TIMEOUT_MS /\ expired')]_vars
    /\ [](expired => (~link /\ Sub(clock, lastAttempt) >= WIFI_TIMEOUT_MS))
    /\ [][(expired /\ pc \in {"upd", "loop"} /\ pc' # pc) => pc' = "start"]_vars
    /\ [][Declines => ~expired]_vars

\* a whole tick has passed with the link down since the window expired, and
\* loop() is about to call update() again
C18_Witness ==
    /\ expired
    /\ pc = "loop"
    /\ caller = "loop"
    /\ outcome = "nolink"
    /\ sinceBegin = WIFI_TIMEOUT_MS

\* ------------------------------------------------------------ C19
\* C19: in the ring-buffer build the three channels share one cursor and one
\* full flag, so the three buffers always hold the same number of samples
\* and the three averages are either all "no data" or all numbers, in every
\* state and so at every send cycle; a send cycle is skipped for lack of
\* data only if no sensor read since boot was valid on all three channels.
C19_ChannelsInStep ==
    variant = "ring" =>
        /\ average(tempBuffer).count = average(humBuffer).count
        /\ average(humBuffer).count = average(presBuffer).count
        /\ average(tempBuffer).count = Len(hist)
        /\ isnanQ(average(tempBuffer)) <=> isnanQ(average(humBuffer))
        /\ isnanQ(average(humBuffer)) <=> isnanQ(average(presBuffer))
        /\ cycleNoData \in {<<>>, <<TRUE, TRUE, TRUE>>, <<FALSE, FALSE, FALSE>>}
        /\ outcome = "skip" => (hist = <<>> /\ cycleNoData = <<TRUE, TRUE, TRUE>>)

\* the ring build has skipped a second send cycle in a row: every reading
\* since boot was invalid on some channel
C19_Witness ==
    /\ variant = "ring"
    /\ pc = "loop"
    /\ outcome = "skip"
    /\ cycleNoData = <<TRUE, TRUE, TRUE>>
    /\ sendGap # Never

\* ------------------------------------------------------------ C20
\* the time since a stamp was set is recorded and is less than one round of
\* the clock
Recorded(age) == age # Never /\ age < ClockMod

\* C20: now - lastAttempt and now - lastSend are computed modulo the size of
\* the wrapping clock; while less than one round of the clock has passed since
\* the stamp was set, the computed difference is the time that really passed,
\* whether or not the clock wrapped in between; so two connect requests stay
\* at least WIFI_TIMEOUT_MS apart, two report attempts stay at least
\* INTERVAL_MS apart, and a connect request or a report attempt that is due
\* is made.
C20_WrapSafeDifferences ==
    /\ [](Recorded(ageAttempt) => Sub(clock, lastAttempt) = ageAttempt)
    /\ [](Recorded(ageSend) => Sub(clock, lastSend) = ageSend)
    /\ [](beginGap # Never => beginGap >= WIFI_TIMEOUT_MS)
    /\ [](sendGap # Never => sendGap >= INTERVAL_MS)
    /\ [][(/\ pc \in {"upd", "loop"} /\ pc' # pc /\ ~link
           /\ Recorded(ageAttempt)) =>
             IF ageAttempt >= WIFI_TIMEOUT_MS
             THEN pc' = "start" /\ lastAttempt' = clock
             ELSE pc' # "start" /\ lastAttempt' = lastAttempt]_vars
    /\ [][(Samples /\ Recorded(ageSend)) =>
             IF ageSend >= INTERVAL_MS
             THEN Triggers /\ lastSend' = clock
             ELSE ~Triggers /\ lastSend' = lastSend]_vars

\* a report attempt was triggered after the clock wrapped, INTERVAL_MS or more
\* after the one before it, which was triggered before the clock wrapped
C20_Witness ==
    /\ pc = "send"
    /\ sendGap # Never
    /\ sendGap >= INTERVAL_MS
    /\ lastSend < INTERVAL_MS
    /\ Recorded(ageSend)

====
